---- MODULE Spec2Model ----
(***************************************************************************)
(* The atom pipeline of topiary (src/src/atom_collection.rs):               *)
(* collect_leafs, resolve_capture, apply_prepends_and_appends and           *)
(* post_process (scope resolution, whitespace normalisation, final          *)
(* hardline), over a small concrete syntax tree.                            *)
(***************************************************************************)
EXTENDS Integers, Sequences, FiniteSets, TLC

VARIABLES
    tree,                   \* the CST handed in by the parser (read-only)
    atoms,                  \* AtomCollection.atoms
    prepend,                \* AtomCollection.prepend  : node id -> list of atoms
    append,                 \* AtomCollection.append   : node id -> list of atoms
    specified_leaf_nodes,   \* AtomCollection.specified_leaf_nodes
    multi_line_nodes,       \* AtomCollection.multi_line_nodes
    blank_lines_before,     \* AtomCollection.blank_lines_before
    line_break_before,      \* AtomCollection.line_break_before
    line_break_after,       \* AtomCollection.line_break_after
    scope_begin,            \* AtomCollection.scope_begin : node id -> (row, scope ids)
    scope_end,              \* AtomCollection.scope_end   : node id -> (row, scope ids)
    counter,                \* AtomCollection.counter
    pc,                     \* position of the pipeline driver
    ncalls,                 \* number of resolve_capture calls made so far
    result,                 \* what the last resolve_capture call returned
    last,                   \* the last call and the collection it was made on (history)
    deleted,                \* nodes a successful `delete` capture was resolved on (history)
    expanded,               \* `atoms` as post_process received them (history)
    scoped,                 \* `atoms` as post_process_scopes left them (history)
    panicked,               \* is_dominant reached its panic! arm
    config_self,            \* Serialisation.language of `self` in eq (topiary-cli)
    config_other,           \* Serialisation.language of `other` in eq
    config_eq               \* what eq returned, None before the call

\* the configuration values, which the atom pipeline never touches
config_vars == <<config_self, config_other, config_eq>>

vars == <<tree, atoms, prepend, append, specified_leaf_nodes, multi_line_nodes,
          blank_lines_before, line_break_before, line_break_after, scope_begin,
          scope_end, counter, pc, ncalls, result, last, deleted, expanded,
          scoped, panicked, config_self, config_other, config_eq>>

---------------------------------------------------------------------------
(* Bounds of the model. *)

\* resolve_capture calls per run of the full pipeline
MaxCaptures == 2
\* resolve_capture calls per run when only scope captures are resolved
MaxScopeCaptures == 3
\* resolve_capture calls per run when only deletions and whitespace are resolved
MaxDeleteCaptures == 3
\* length of the atom sequences handed directly to post_process
MaxLen == 5
\* resolve_capture calls per run when scopes are opened and closed on tokens
MaxNestCaptures == 5
\* resolve_capture calls per run before the buckets are expanded twice
MaxExpandCaptures == 3
\* entries of the `language` list of a Serialisation value
MaxLanguages == 3

---------------------------------------------------------------------------
(* Option<T>: None is the empty set, Some(x) the singleton {x}. *)

None == {}
Some(x) == {x}
Unwrap(o) == CHOOSE x \in o : TRUE

(* HashMap<K, V>: a function whose domain is the set of keys present. *)
EmptyMap == [k \in {} |-> <<>>]
Insert(map, key, value) ==
    [k \in DOMAIN map \cup {key} |-> IF k = key THEN value ELSE map[k]]

---------------------------------------------------------------------------
(* Atom (crate::Atom), the tagged variant. *)

Leaf(content, id) == [kind |-> "Leaf", content |-> content, id |-> id]
Literal(text) == [kind |-> "Literal", text |-> text]
MultilineOnlyLiteral(text) == [kind |-> "MultilineOnlyLiteral", text |-> text]
Space == [kind |-> "Space"]
Hardline == [kind |-> "Hardline"]
Blankline == [kind |-> "Blankline"]
Softline(spaced) == [kind |-> "Softline", spaced |-> spaced]
ScopedSoftline(id, scope_id, spaced) ==
    [kind |-> "ScopedSoftline", id |-> id, scope_id |-> scope_id, spaced |-> spaced]
IndentStart == [kind |-> "IndentStart"]
IndentEnd == [kind |-> "IndentEnd"]
DeleteBegin == [kind |-> "DeleteBegin"]
DeleteEnd == [kind |-> "DeleteEnd"]

---------------------------------------------------------------------------
(* The CST (tree_sitter::Node).  A tree is a record                        *)
(*   children : node id -> sequence of child ids, in source order          *)
(*   rows     : childless node id -> <<start row, end row>>                *)
(* Node 1 is the root; ids are numbered in depth-first order.              *)

Shape ==
    <<  <<2, 6>>,       \* 1 : root
        <<3>>,          \* 2
        <<4, 5>>,       \* 3
        <<>>,           \* 4 : token
        <<>>,           \* 5 : token
        <<>>  >>        \* 6 : token

\* 4 and 5 on one line, a blank line, then 6
RowsBreaks == (4 :> <<0, 0>>) @@ (5 :> <<0, 0>>) @@ (6 :> <<2, 2>>)
\* 4 is a token spanning two lines; 5 and 6 follow on its last line
RowsToken == (4 :> <<0, 1>>) @@ (5 :> <<1, 1>>) @@ (6 :> <<1, 1>>)

Trees == { [children |-> Shape, rows |-> r] : r \in {RowsBreaks, RowsToken} }

\* the sets of opaque leaves handed in with the tree
SpecifiedSets == { {}, {3}, {2, 3} }

Root == 1
Nodes == DOMAIN tree.children
child_count(node) == Len(tree.children[node])
\* Node::child(i), i counted from 0
child(node, i) == tree.children[node][i + 1]
children(node) == tree.children[node]
\* Node::parent(), an Option
parent(node) == { p \in Nodes : \E i \in 1..Len(tree.children[p]) : tree.children[p][i] = node }

RECURSIVE first_leaf(_)
first_leaf(node) ==
    IF child_count(node) = 0 THEN node ELSE first_leaf(child(node, 0))

RECURSIVE last_leaf(_)
last_leaf(node) ==
    LET nr_children == child_count(node)
    IN  IF nr_children = 0 THEN node ELSE last_leaf(child(node, nr_children - 1))

\* Node::start_position().row and Node::end_position().row: an inner node
\* spans from its first token to its last one
start_row(node) == tree.rows[first_leaf(node)][1]
end_row(node) == tree.rows[last_leaf(node)][2]

\* Node::utf8_text: the tokens the node covers, in source order
RECURSIVE utf8_text(_)
RECURSIVE TextOfAll(_)
TextOfAll(nodes) ==
    IF nodes = <<>> THEN <<>> ELSE utf8_text(Head(nodes)) \o TextOfAll(Tail(nodes))
utf8_text(node) ==
    IF child_count(node) = 0 THEN <<node>> ELSE TextOfAll(children(node))

---------------------------------------------------------------------------
(* Tree scanner. *)

RECURSIVE detect_multi_line_nodes(_)
detect_multi_line_nodes(node) ==
    LET below == UNION { detect_multi_line_nodes(children(node)[i]) :
                            i \in 1..child_count(node) }
    IN  IF end_row(node) > start_row(node) THEN below \cup {node} ELSE below

\* The nodes in the order detect_line_breaks_inner visits them (pre-order).
RECURSIVE Visit(_)
RECURSIVE VisitAll(_)
VisitAll(nodes) ==
    IF nodes = <<>> THEN <<>> ELSE Visit(Head(nodes)) \o VisitAll(Tail(nodes))
Visit(node) == <<node>> \o VisitAll(children(node))

\* detect_line_breaks_inner: previous_node is the node visited just before
\* the current one; the result is the pair (before, after).
detect_line_breaks_inner(node, minimum_line_breaks) ==
    LET order == Visit(node)
        hit(i) == start_row(order[i]) >= end_row(order[i - 1]) + minimum_line_breaks
    IN  << { order[i] : i \in { j \in 2..Len(order) : hit(j) } },
           { order[i - 1] : i \in { j \in 2..Len(order) : hit(j) } } >>

\* the minimum_line_breaks of a blank line and of a line break
BlankLineBreaks == 2
LineBreaks == 1

detect_blank_lines_before(node) == detect_line_breaks_inner(node, BlankLineBreaks)[1]
detect_line_break_before_and_after(node) == detect_line_breaks_inner(node, LineBreaks)

---------------------------------------------------------------------------
(* Leaf collector. *)

\* mutant: the children of an opaque leaf are collected as well
RECURSIVE collect_leafs_inner_Descend(_, _)
RECURSIVE CollectAll_Descend(_, _)
CollectAll_Descend(nodes, specified) ==
    IF nodes = <<>> THEN <<>>
    ELSE collect_leafs_inner_Descend(Head(nodes), specified)
             \o CollectAll_Descend(Tail(nodes), specified)
collect_leafs_inner_Descend(node, specified) ==
    IF child_count(node) = 0 THEN << Leaf(utf8_text(node), node) >>
    ELSE (IF node \in specified THEN << Leaf(utf8_text(node), node) >> ELSE <<>>)
             \o CollectAll_Descend(children(node), specified)

RECURSIVE collect_leafs_inner(_, _)
RECURSIVE CollectAll(_, _)
CollectAll(nodes, specified) ==
    IF nodes = <<>> THEN <<>>
    ELSE collect_leafs_inner(Head(nodes), specified) \o CollectAll(Tail(nodes), specified)
collect_leafs_inner(node, specified) ==
    IF child_count(node) = 0 \/ node \in specified
    THEN << Leaf(utf8_text(node), node) >>
    ELSE CollectAll(children(node), specified)

---------------------------------------------------------------------------
(* Capture resolver.  `self` is the mutable part of the collection:        *)
(* [prepend, append, scope_begin, scope_end, counter].                     *)

\* parent_leaf_node: the nearest proper ancestor that is an opaque leaf,
\* the node itself when there is none
RECURSIVE NearestSpecifiedAncestor(_)
NearestSpecifiedAncestor(n) ==
    IF parent(n) = None THEN None
    ELSE LET p == Unwrap(parent(n))
         IN  IF p \in specified_leaf_nodes THEN Some(p)
             ELSE NearestSpecifiedAncestor(p)

parent_leaf_node(node) ==
    LET found == NearestSpecifiedAncestor(node)
    IN  IF found = None THEN node ELSE Unwrap(found)

\* mutant: a softline under a single-line parent becomes Space, spaced or not
expand_multiline_AlwaysSpace(atom, node) ==
    IF atom.kind = "Softline" THEN
        IF parent(node) # None THEN
            IF Unwrap(parent(node)) \in multi_line_nodes THEN Some(Hardline)
            ELSE Some(Space)
        ELSE None
    ELSE IF atom.kind = "MultilineOnlyLiteral" THEN
        IF parent(node) # None THEN
            IF Unwrap(parent(node)) \in multi_line_nodes THEN Some(Literal(atom.text))
            ELSE None
        ELSE None
    ELSE Some(atom)

\* mutant: a MultilineOnlyLiteral is stored as it is
expand_multiline_KeepLiteral(atom, node) ==
    IF atom.kind = "Softline" THEN
        IF parent(node) # None THEN
            IF Unwrap(parent(node)) \in multi_line_nodes THEN Some(Hardline)
            ELSE IF atom.spaced THEN Some(Space)
            ELSE None
        ELSE None
    ELSE Some(atom)

expand_multiline(atom, node) ==
    IF atom.kind = "Softline" THEN
        IF parent(node) # None THEN
            IF Unwrap(parent(node)) \in multi_line_nodes THEN Some(Hardline)
            ELSE IF atom.spaced THEN Some(Space)
            ELSE None
        ELSE None
    ELSE IF atom.kind = "MultilineOnlyLiteral" THEN
        IF parent(node) # None THEN
            IF Unwrap(parent(node)) \in multi_line_nodes THEN Some(Literal(atom.text))
            ELSE None
        ELSE None
    ELSE Some(atom)

\* mutant: map.insert(key, vec![atom]), which replaces a bucket that exists
PushEntry_Replace(map, key, atom) == Insert(map, key, <<atom>>)

\* map.entry(key).and_modify(|atoms| atoms.push(atom)).or_insert_with(|| vec![atom])
PushEntry(map, key, atom) ==
    Insert(map, key, IF key \in DOMAIN map THEN Append(map[key], atom) ELSE <<atom>>)

\* AtomCollection::prepend
do_prepend(self, atom, node) ==
    LET e == expand_multiline(atom, node)
    IN  IF e = None THEN self
        ELSE LET target_node == parent_leaf_node(first_leaf(node))
             IN  [self EXCEPT !.prepend = PushEntry(self.prepend, target_node, Unwrap(e))]

\* AtomCollection::append
do_append(self, atom, node) ==
    LET e == expand_multiline(atom, node)
    IN  IF e = None THEN self
        ELSE LET target_node == parent_leaf_node(last_leaf(node))
             IN  [self EXCEPT !.append = PushEntry(self.append, target_node, Unwrap(e))]

\* entry(key).and_modify(|(_, scope_ids)| scope_ids.push(scope_id))
\*           .or_insert_with(|| (row, vec![scope_id]))
PushScope(map, key, row, scope_id) ==
    Insert(map, key,
           IF key \in DOMAIN map
           THEN [row |-> map[key].row, scope_ids |-> Append(map[key].scope_ids, scope_id)]
           ELSE [row |-> row, scope_ids |-> <<scope_id>>])

\* mutant: the scope is registered with the end row of its first leaf
begin_scope_before_EndRow(self, node, scope_id) ==
    LET target_node == parent_leaf_node(first_leaf(node))
    IN  [self EXCEPT !.scope_begin =
            PushScope(self.scope_begin, target_node, end_row(target_node), scope_id)]

begin_scope_before(self, node, scope_id) ==
    LET target_node == parent_leaf_node(first_leaf(node))
    IN  [self EXCEPT !.scope_begin =
            PushScope(self.scope_begin, target_node, start_row(target_node), scope_id)]

end_scope_after(self, node, scope_id) ==
    LET target_node == parent_leaf_node(last_leaf(node))
    IN  [self EXCEPT !.scope_end =
            PushScope(self.scope_end, target_node, end_row(target_node), scope_id)]

\* mutant: the counter is handed out without being incremented
next_id_NoIncrement(self) == self

next_id(self) == [self EXCEPT !.counter = self.counter + 1]

Ok(self) == [result |-> "Ok", self |-> self]
Err(self) == [result |-> "QueryError", self |-> self]

\* the capture names resolve_capture matches on
CaptureNames ==
    { "allow_blank_line_before", "append_delimiter", "append_empty_softline",
      "append_hardline", "append_indent_start", "append_indent_end",
      "append_input_softline", "append_multiline_delimiter", "append_space",
      "append_spaced_softline", "prepend_delimiter", "prepend_empty_softline",
      "prepend_hardline", "prepend_indent_start", "prepend_indent_end",
      "prepend_input_softline", "prepend_multiline_delimiter", "prepend_space",
      "prepend_spaced_softline", "leaf", "delete", "begin_scope", "end_scope",
      "append_empty_scoped_softline", "append_spaced_scoped_softline",
      "prepend_empty_scoped_softline", "prepend_spaced_scoped_softline" }

\* mutant: a scoped softline without scope id is stored with an empty one
ScopedSoftlineArm_NoScopeCheck(self, prepends, spaced, node, scope_id) ==
    LET s1 == next_id(self)
        atom == ScopedSoftline(s1.counter,
                               IF scope_id = None THEN "" ELSE Unwrap(scope_id), spaced)
    IN  Ok(IF prepends THEN do_prepend(s1, atom, node) ELSE do_append(s1, atom, node))

\* the scoped softline arms: next_id() runs before requires_scope_id()?
ScopedSoftlineArm(self, prepends, spaced, node, scope_id) ==
    LET s1 == next_id(self)
    IN  IF scope_id = None THEN Err(s1)
        ELSE LET atom == ScopedSoftline(s1.counter, Unwrap(scope_id), spaced)
             IN  Ok(IF prepends THEN do_prepend(s1, atom, node)
                    ELSE do_append(s1, atom, node))

resolve_capture(self, name, node, delimiter, scope_id) ==
    CASE name = "allow_blank_line_before" ->
            IF node \in blank_lines_before THEN Ok(do_prepend(self, Blankline, node))
            ELSE Ok(self)
      [] name = "append_delimiter" ->
            IF delimiter = None THEN Err(self)
            ELSE Ok(do_append(self, Literal(Unwrap(delimiter)), node))
      [] name = "append_empty_softline" -> Ok(do_append(self, Softline(FALSE), node))
      [] name = "append_hardline" -> Ok(do_append(self, Hardline, node))
      [] name = "append_indent_start" -> Ok(do_append(self, IndentStart, node))
      [] name = "append_indent_end" -> Ok(do_append(self, IndentEnd, node))
      [] name = "append_input_softline" ->
            LET space == IF node \in line_break_after THEN Hardline ELSE Space
            IN  Ok(do_append(self, space, node))
      [] name = "append_multiline_delimiter" ->
            IF delimiter = None THEN Err(self)
            ELSE Ok(do_append(self, MultilineOnlyLiteral(Unwrap(delimiter)), node))
      [] name = "append_space" -> Ok(do_append(self, Space, node))
      [] name = "append_spaced_softline" -> Ok(do_append(self, Softline(TRUE), node))
      [] name = "prepend_delimiter" ->
            IF delimiter = None THEN Err(self)
            ELSE Ok(do_prepend(self, Literal(Unwrap(delimiter)), node))
      [] name = "prepend_empty_softline" -> Ok(do_prepend(self, Softline(FALSE), node))
      [] name = "prepend_hardline" -> Ok(do_prepend(self, Hardline, node))
      [] name = "prepend_indent_start" -> Ok(do_prepend(self, IndentStart, node))
      [] name = "prepend_indent_end" -> Ok(do_prepend(self, IndentEnd, node))
      [] name = "prepend_input_softline" ->
            LET space == IF node \in line_break_before THEN Hardline ELSE Space
            IN  Ok(do_prepend(self, space, node))
      [] name = "prepend_multiline_delimiter" ->
            IF delimiter = None THEN Err(self)
            ELSE Ok(do_prepend(self, MultilineOnlyLiteral(Unwrap(delimiter)), node))
      [] name = "prepend_space" -> Ok(do_prepend(self, Space, node))
      [] name = "prepend_spaced_softline" -> Ok(do_prepend(self, Softline(TRUE), node))
      [] name = "leaf" -> Ok(self)
      [] name = "delete" ->
            Ok(do_append(do_prepend(self, DeleteBegin, node), DeleteEnd, node))
      [] name = "begin_scope" ->
            IF scope_id = None THEN Err(self)
            ELSE Ok(begin_scope_before(self, node, Unwrap(scope_id)))
      [] name = "end_scope" ->
            IF scope_id = None THEN Err(self)
            ELSE Ok(end_scope_after(self, node, Unwrap(scope_id)))
      [] name = "append_empty_scoped_softline" ->
            ScopedSoftlineArm(self, FALSE, FALSE, node, scope_id)
      [] name = "append_spaced_scoped_softline" ->
            ScopedSoftlineArm(self, FALSE, TRUE, node, scope_id)
      [] name = "prepend_empty_scoped_softline" ->
            ScopedSoftlineArm(self, TRUE, FALSE, node, scope_id)
      [] name = "prepend_spaced_scoped_softline" ->
            ScopedSoftlineArm(self, TRUE, TRUE, node, scope_id)
      [] OTHER -> Err(self)

---------------------------------------------------------------------------
(* Expansion pass. *)

\* self.prepend.entry(*id).or_default(): the bucket, created empty when absent
OrDefault(map, keys) ==
    [k \in DOMAIN map \cup keys |-> IF k \in DOMAIN map THEN map[k] ELSE <<>>]

LeafIds(as) == { as[i].id : i \in { j \in 1..Len(as) : as[j].kind = "Leaf" } }

\* mutant: the Leaf itself is not pushed
RECURSIVE ExpandFrom_NoLeaf(_, _, _)
ExpandFrom_NoLeaf(as, pre, app) ==
    IF as = <<>> THEN <<>>
    ELSE LET atom == Head(as)
         IN  (IF atom.kind = "Leaf"
              THEN pre[atom.id] \o app[atom.id]
              ELSE <<atom>>) \o ExpandFrom_NoLeaf(Tail(as), pre, app)

\* mutant: the append bucket is emitted in front of the Leaf, the prepend one behind
RECURSIVE ExpandFrom_Swapped(_, _, _)
ExpandFrom_Swapped(as, pre, app) ==
    IF as = <<>> THEN <<>>
    ELSE LET atom == Head(as)
         IN  (IF atom.kind = "Leaf"
              THEN app[atom.id] \o <<atom>> \o pre[atom.id]
              ELSE <<atom>>) \o ExpandFrom_Swapped(Tail(as), pre, app)

\* mutant: the Leaf is emitted in front of its prepend bucket
RECURSIVE ExpandFrom_LeafFirst(_, _, _)
ExpandFrom_LeafFirst(as, pre, app) ==
    IF as = <<>> THEN <<>>
    ELSE LET atom == Head(as)
         IN  (IF atom.kind = "Leaf"
              THEN <<atom>> \o pre[atom.id] \o app[atom.id]
              ELSE <<atom>>) \o ExpandFrom_LeafFirst(Tail(as), pre, app)

RECURSIVE ExpandFrom(_, _, _)
ExpandFrom(as, pre, app) ==
    IF as = <<>> THEN <<>>
    ELSE LET atom == Head(as)
         IN  (IF atom.kind = "Leaf"
              THEN pre[atom.id] \o <<atom>> \o app[atom.id]
              ELSE <<atom>>) \o ExpandFrom(Tail(as), pre, app)

\* the new [atoms, prepend, append]
apply_prepends_and_appends(as, pre, app) ==
    LET pre1 == OrDefault(pre, LeafIds(as))
        app1 == OrDefault(app, LeafIds(as))
    IN  [atoms |-> ExpandFrom(as, pre1, app1), prepend |-> pre1, append |-> app1]

---------------------------------------------------------------------------
(* Scope resolver.  The state of the first pass is                         *)
(*   opened_scopes : scope id -> stack of [line_start, atoms]              *)
(*   modifications : ScopedSoftline id -> Option<Atom>                     *)
(*   force_apply_modifications                                             *)

HasOpenFrame(opened_scopes, scope_id) ==
    scope_id \in DOMAIN opened_scopes /\ opened_scopes[scope_id] # <<>>

RECURSIVE BeginScopes(_, _, _)
BeginScopes(opened_scopes, line_start, scope_ids) ==
    IF scope_ids = <<>> THEN opened_scopes
    ELSE LET scope_id == Head(scope_ids)
             stack == IF scope_id \in DOMAIN opened_scopes
                      THEN opened_scopes[scope_id] ELSE <<>>
             frame == [line_start |-> line_start, atoms |-> <<>>]
         IN  BeginScopes(Insert(opened_scopes, scope_id, Append(stack, frame)),
                         line_start, Tail(scope_ids))

\* the replacement of one ScopedSoftline of a frame that is being closed
new_atom(multiline, spaced) ==
    IF multiline THEN Some(Hardline)
    ELSE IF spaced THEN Some(Space)
    ELSE None

RECURSIVE RegisterModifications(_, _, _)
RegisterModifications(modifications, frame_atoms, multiline) ==
    IF frame_atoms = <<>> THEN modifications
    ELSE LET atom == Head(frame_atoms)
         IN  RegisterModifications(
                 Insert(modifications, atom.id, new_atom(multiline, atom.spaced)),
                 Tail(frame_atoms), multiline)

\* mutant: closing a scope pops the outermost open frame of its scope id
RECURSIVE EndScopes_PopOuter(_, _, _)
EndScopes_PopOuter(st, line_end, scope_ids) ==
    IF scope_ids = <<>> THEN st
    ELSE LET scope_id == Head(scope_ids)
         IN  IF HasOpenFrame(st.opened_scopes, scope_id)
             THEN LET stack == st.opened_scopes[scope_id]
                      frame == stack[1]
                      multiline == frame.line_start # line_end
                  IN  EndScopes_PopOuter(
                        [st EXCEPT
                           !.opened_scopes = Insert(@, scope_id, Tail(stack)),
                           !.modifications =
                               RegisterModifications(@, frame.atoms, multiline)],
                        line_end, Tail(scope_ids))
             ELSE EndScopes_PopOuter([st EXCEPT !.force_apply_modifications = TRUE],
                                     line_end, Tail(scope_ids))

RECURSIVE EndScopes(_, _, _)
EndScopes(st, line_end, scope_ids) ==
    IF scope_ids = <<>> THEN st
    ELSE LET scope_id == Head(scope_ids)
         IN  IF HasOpenFrame(st.opened_scopes, scope_id)
             THEN LET stack == st.opened_scopes[scope_id]
                      frame == stack[Len(stack)]
                      multiline == frame.line_start # line_end
                  IN  EndScopes(
                        [st EXCEPT
                           !.opened_scopes =
                               Insert(@, scope_id, SubSeq(stack, 1, Len(stack) - 1)),
                           !.modifications =
                               RegisterModifications(@, frame.atoms, multiline)],
                        line_end, Tail(scope_ids))
             ELSE EndScopes([st EXCEPT !.force_apply_modifications = TRUE],
                            line_end, Tail(scope_ids))

\* mutant: a scoped softline outside of its scope is not reported
ClassifyAtom_NoForce(st, atom, sbegin, send) ==
    IF atom.kind = "Leaf" THEN
        LET st1 == IF atom.id \in DOMAIN sbegin
                   THEN [st EXCEPT !.opened_scopes =
                            BeginScopes(@, sbegin[atom.id].row, sbegin[atom.id].scope_ids)]
                   ELSE st
        IN  IF atom.id \in DOMAIN send
            THEN EndScopes(st1, send[atom.id].row, send[atom.id].scope_ids)
            ELSE st1
    ELSE IF atom.kind = "ScopedSoftline" THEN
        IF HasOpenFrame(st.opened_scopes, atom.scope_id)
        THEN LET stack == st.opened_scopes[atom.scope_id]
                 top == stack[Len(stack)]
             IN  [st EXCEPT !.opened_scopes =
                    Insert(@, atom.scope_id,
                           [stack EXCEPT ![Len(stack)] =
                               [top EXCEPT !.atoms = Append(@, atom)]])]
        ELSE st
    ELSE st

\* one iteration of the first pass
ClassifyAtom(st, atom, sbegin, send) ==
    IF atom.kind = "Leaf" THEN
        LET st1 == IF atom.id \in DOMAIN sbegin
                   THEN [st EXCEPT !.opened_scopes =
                            BeginScopes(@, sbegin[atom.id].row, sbegin[atom.id].scope_ids)]
                   ELSE st
        IN  IF atom.id \in DOMAIN send
            THEN EndScopes(st1, send[atom.id].row, send[atom.id].scope_ids)
            ELSE st1
    ELSE IF atom.kind = "ScopedSoftline" THEN
        IF HasOpenFrame(st.opened_scopes, atom.scope_id)
        THEN LET stack == st.opened_scopes[atom.scope_id]
                 top == stack[Len(stack)]
             IN  [st EXCEPT !.opened_scopes =
                    Insert(@, atom.scope_id,
                           [stack EXCEPT ![Len(stack)] =
                               [top EXCEPT !.atoms = Append(@, atom)]])]
        ELSE [st EXCEPT !.force_apply_modifications = TRUE]
    ELSE st

RECURSIVE Classify(_, _, _, _)
Classify(st, as, sbegin, send) ==
    IF as = <<>> THEN st
    ELSE Classify(ClassifyAtom(st, Head(as), sbegin, send), Tail(as), sbegin, send)

\* mutant: the atom behind a ScopedSoftline that has no entry is dropped too
RECURSIVE ApplyModifications_SkipNext(_, _)
ApplyModifications_SkipNext(as, modifications) ==
    IF as = <<>> THEN <<>>
    ELSE LET atom == Head(as)
         IN  IF atom.kind = "ScopedSoftline" THEN
                 IF atom.id \in DOMAIN modifications
                 THEN (IF modifications[atom.id] = None THEN <<>>
                       ELSE << Unwrap(modifications[atom.id]) >>)
                      \o ApplyModifications_SkipNext(Tail(as),
                            [k \in DOMAIN modifications \ {atom.id} |-> modifications[k]])
                 ELSE IF Tail(as) = <<>> THEN <<>>
                 ELSE ApplyModifications_SkipNext(Tail(Tail(as)), modifications)
             ELSE <<atom>> \o ApplyModifications_SkipNext(Tail(as), modifications)

\* the second pass; modifications.remove(id) takes the entry out of the map
RECURSIVE ApplyModifications(_, _)
ApplyModifications(as, modifications) ==
    IF as = <<>> THEN <<>>
    ELSE LET atom == Head(as)
         IN  IF atom.kind = "ScopedSoftline" THEN
                 IF atom.id \in DOMAIN modifications
                 THEN (IF modifications[atom.id] = None THEN <<>>
                       ELSE << Unwrap(modifications[atom.id]) >>)
                      \o ApplyModifications(Tail(as),
                            [k \in DOMAIN modifications \ {atom.id} |-> modifications[k]])
                 ELSE ApplyModifications(Tail(as), modifications)
             ELSE <<atom>> \o ApplyModifications(Tail(as), modifications)

\* mutant: scopes left open do not force the second pass
post_process_scopes_NoStillOpened(as, sbegin, send) ==
    LET st0 == [opened_scopes |-> EmptyMap, modifications |-> EmptyMap,
                force_apply_modifications |-> FALSE]
        st1 == Classify(st0, as, sbegin, send)
        force == st1.force_apply_modifications
        applied == DOMAIN st1.modifications # {} \/ force
    IN  [atoms |-> IF applied THEN ApplyModifications(as, st1.modifications) ELSE as,
         modifications |-> st1.modifications,
         force_apply_modifications |-> force,
         applied |-> applied]

\* [atoms, modifications, force_apply_modifications, applied]
post_process_scopes(as, sbegin, send) ==
    LET st0 == [opened_scopes |-> EmptyMap, modifications |-> EmptyMap,
                force_apply_modifications |-> FALSE]
        st1 == Classify(st0, as, sbegin, send)
        still_opened == { scope_id \in DOMAIN st1.opened_scopes :
                            st1.opened_scopes[scope_id] # <<>> }
        force == st1.force_apply_modifications \/ still_opened # {}
        applied == DOMAIN st1.modifications # {} \/ force
    IN  [atoms |-> IF applied THEN ApplyModifications(as, st1.modifications) ELSE as,
         modifications |-> st1.modifications,
         force_apply_modifications |-> force,
         applied |-> applied]

---------------------------------------------------------------------------
(* Whitespace normaliser. *)

Whitespace == {Space, Hardline, Blankline}
Indents == {IndentStart, IndentEnd}

\* mutant: a Hardline replaces whatever whitespace came before it
is_dominant_HardlineWins(next, prev) ==
    CASE next = Space -> Some(FALSE)
      [] next = Hardline -> Some(TRUE)
      [] next = Blankline -> Some(prev # Blankline)
      [] OTHER -> None

\* None stands for the panic! arm
is_dominant(next, prev) ==
    CASE next = Space -> Some(FALSE)
      [] next = Hardline -> Some(prev = Space)
      [] next = Blankline -> Some(prev # Blankline)
      [] OTHER -> None

Pop(v) == SubSeq(v, 1, Len(v) - 1)

\* mutant: an indent marker that follows whitespace is swallowed
post_process_internal_DropIndent(new_vec, prev, next) ==
    IF prev \in Whitespace THEN
        IF next \in Whitespace THEN
            LET dominant == is_dominant(next, prev)
            IN  IF dominant = None THEN [new_vec |-> new_vec, panicked |-> TRUE]
                ELSE IF Unwrap(dominant)
                     THEN [new_vec |-> Append(Pop(new_vec), next), panicked |-> FALSE]
                     ELSE [new_vec |-> new_vec, panicked |-> FALSE]
        ELSE IF next \in Indents THEN
            [new_vec |-> new_vec, panicked |-> FALSE]
        ELSE [new_vec |-> Append(new_vec, next), panicked |-> FALSE]
    ELSE IF prev = DeleteBegin THEN
        IF next = DeleteEnd
        THEN [new_vec |-> Pop(new_vec), panicked |-> FALSE]
        ELSE [new_vec |-> new_vec, panicked |-> FALSE]
    ELSE [new_vec |-> Append(new_vec, next), panicked |-> FALSE]

\* mutant: an indent marker is pushed behind the whitespace
post_process_internal_NoReorder(new_vec, prev, next) ==
    IF prev \in Whitespace THEN
        IF next \in Whitespace THEN
            LET dominant == is_dominant(next, prev)
            IN  IF dominant = None THEN [new_vec |-> new_vec, panicked |-> TRUE]
                ELSE IF Unwrap(dominant)
                     THEN [new_vec |-> Append(Pop(new_vec), next), panicked |-> FALSE]
                     ELSE [new_vec |-> new_vec, panicked |-> FALSE]
        ELSE [new_vec |-> Append(new_vec, next), panicked |-> FALSE]
    ELSE IF prev = DeleteBegin THEN
        IF next = DeleteEnd
        THEN [new_vec |-> Pop(new_vec), panicked |-> FALSE]
        ELSE [new_vec |-> new_vec, panicked |-> FALSE]
    ELSE [new_vec |-> Append(new_vec, next), panicked |-> FALSE]

\* mutant: behind whitespace, is_dominant is asked about every next atom
\* that is not an indent marker
post_process_internal_NoNextCheck(new_vec, prev, next) ==
    IF prev \in Whitespace THEN
        IF next \in Indents THEN
            [new_vec |-> Append(Append(Pop(new_vec), next), prev), panicked |-> FALSE]
        ELSE
            LET dominant == is_dominant(next, prev)
            IN  IF dominant = None THEN [new_vec |-> new_vec, panicked |-> TRUE]
                ELSE IF Unwrap(dominant)
                     THEN [new_vec |-> Append(Pop(new_vec), next), panicked |-> FALSE]
                     ELSE [new_vec |-> new_vec, panicked |-> FALSE]
    ELSE IF prev = DeleteBegin THEN
        IF next = DeleteEnd
        THEN [new_vec |-> Pop(new_vec), panicked |-> FALSE]
        ELSE [new_vec |-> new_vec, panicked |-> FALSE]
    ELSE [new_vec |-> Append(new_vec, next), panicked |-> FALSE]

\* [new_vec, panicked]
post_process_internal(new_vec, prev, next) ==
    IF prev \in Whitespace THEN
        IF next \in Whitespace THEN
            LET dominant == is_dominant(next, prev)
            IN  IF dominant = None THEN [new_vec |-> new_vec, panicked |-> TRUE]
                ELSE IF Unwrap(dominant)
                     THEN [new_vec |-> Append(Pop(new_vec), next), panicked |-> FALSE]
                     ELSE [new_vec |-> new_vec, panicked |-> FALSE]
        ELSE IF next \in Indents THEN
            [new_vec |-> Append(Append(Pop(new_vec), next), prev), panicked |-> FALSE]
        ELSE [new_vec |-> Append(new_vec, next), panicked |-> FALSE]
    ELSE IF prev = DeleteBegin THEN
        IF next = DeleteEnd
        THEN [new_vec |-> Pop(new_vec), panicked |-> FALSE]
        ELSE [new_vec |-> new_vec, panicked |-> FALSE]
    ELSE [new_vec |-> Append(new_vec, next), panicked |-> FALSE]

\* the loop of post_process
RECURSIVE Normalise(_, _)
Normalise(new_vec, as) ==
    IF as = <<>> THEN [new_vec |-> new_vec, panicked |-> FALSE]
    ELSE LET next == Head(as)
         IN  IF new_vec # <<>>
             THEN LET r == post_process_internal(new_vec, new_vec[Len(new_vec)], next)
                  IN  IF r.panicked THEN r ELSE Normalise(r.new_vec, Tail(as))
             ELSE IF next \in Whitespace THEN Normalise(new_vec, Tail(as))
             ELSE Normalise(Append(new_vec, next), Tail(as))

\* the <<next, prev>> pairs is_dominant is called with in the loop of
\* post_process: prev is the last atom of new_vec, and post_process_internal
\* reaches the call when prev and next are both a space or a line
RECURSIVE IsDominantCalls(_, _)
IsDominantCalls(new_vec, as) ==
    IF as = <<>> THEN {}
    ELSE LET next == Head(as)
         IN  IF new_vec # <<>>
             THEN LET prev == new_vec[Len(new_vec)]
                      r == post_process_internal(new_vec, prev, next)
                  IN  (IF prev \in Whitespace /\ next \in Whitespace
                       THEN {<<next, prev>>} ELSE {})
                      \cup (IF r.panicked THEN {}
                            ELSE IsDominantCalls(r.new_vec, Tail(as)))
             ELSE IF next \in Whitespace THEN IsDominantCalls(new_vec, Tail(as))
             ELSE IsDominantCalls(Append(new_vec, next), Tail(as))

\* mutant: nothing is pushed on an empty vector
ensure_final_hardline_SkipEmpty(v) ==
    IF v = <<>> \/ v[Len(v)] = Hardline THEN v ELSE Append(v, Hardline)

\* mutant: a trailing Space or Blankline is turned into the final Hardline
ensure_final_hardline_Coerce(v) ==
    IF v # <<>> /\ v[Len(v)] = Hardline THEN v
    ELSE IF v # <<>> /\ v[Len(v)] \in Whitespace THEN Append(Pop(v), Hardline)
    ELSE Append(v, Hardline)

ensure_final_hardline(v) ==
    IF v # <<>> /\ v[Len(v)] = Hardline THEN v ELSE Append(v, Hardline)

\* [atoms, scoped, panicked]
post_process(as, sbegin, send) ==
    LET sc == post_process_scopes(as, sbegin, send)
        nz == Normalise(<<>>, sc.atoms)
    IN  [atoms |-> IF nz.panicked THEN sc.atoms ELSE ensure_final_hardline(nz.new_vec),
         scoped |-> sc.atoms,
         panicked |-> nz.panicked]

---------------------------------------------------------------------------
(* The pipeline: collect_leafs, then resolve_capture for each capture of   *)
(* the query, then apply_prepends_and_appends, then post_process.          *)

\* AtomCollection::collect_leafs on tree `t` with the opaque leaves `specified`
collect_leafs(t, specified) ==
    /\ tree = t
    /\ specified_leaf_nodes = specified
    /\ multi_line_nodes = detect_multi_line_nodes(Root)
    /\ blank_lines_before = detect_blank_lines_before(Root)
    /\ line_break_before = detect_line_break_before_and_after(Root)[1]
    /\ line_break_after = detect_line_break_before_and_after(Root)[2]
    /\ atoms = collect_leafs_inner(Root, specified)
    /\ prepend = EmptyMap
    /\ append = EmptyMap
    /\ scope_begin = EmptyMap
    /\ scope_end = EmptyMap
    /\ counter = 0

\* no Serialisation values are being compared
NoConfiguration ==
    /\ config_self = <<>>
    /\ config_other = <<>>
    /\ config_eq = {}

NoHistory ==
    /\ ncalls = 0
    /\ result = "none"
    /\ last = None
    /\ deleted = {}
    /\ expanded = <<>>
    /\ scoped = <<>>
    /\ panicked = FALSE

Init ==
    /\ \E t \in Trees, specified \in SpecifiedSets : collect_leafs(t, specified)
    /\ pc = "resolving"
    /\ NoHistory
    /\ NoConfiguration

\* what the query engine may hand to resolve_capture
Names == CaptureNames \cup {"append_newline"}
Delimiters == {None, Some(",")}
ScopeIds == {None, Some("a"), Some("b")}

Self ==
    [prepend |-> prepend, append |-> append, scope_begin |-> scope_begin,
     scope_end |-> scope_end, counter |-> counter]

\* one resolve_capture call
Resolve(name, node, delimiter, scope_id) ==
    /\ pc = "resolving"
    /\ \E r \in {resolve_capture(Self, name, node, delimiter, scope_id)} :
           /\ prepend' = r.self.prepend
           /\ append' = r.self.append
           /\ scope_begin' = r.self.scope_begin
           /\ scope_end' = r.self.scope_end
           /\ counter' = r.self.counter
           /\ result' = r.result
           /\ deleted' = IF name = "delete" /\ r.result = "Ok"
                         THEN deleted \cup {node} ELSE deleted
    /\ ncalls' = ncalls + 1
    /\ UNCHANGED <<tree, atoms, specified_leaf_nodes, multi_line_nodes,
                   blank_lines_before, line_break_before, line_break_after,
                   pc, expanded, scoped, panicked>>
    /\ UNCHANGED config_vars

ResolveCapture ==
    /\ ncalls < MaxCaptures
    /\ \E name \in Names, node \in Nodes, delimiter \in Delimiters, scope_id \in ScopeIds :
          Resolve(name, node, delimiter, scope_id)
    /\ UNCHANGED last

ApplyPrependsAndAppends ==
    /\ pc = "resolving"
    /\ \E r \in {apply_prepends_and_appends(atoms, prepend, append)} :
           /\ atoms' = r.atoms
           /\ prepend' = r.prepend
           /\ append' = r.append
    /\ pc' = "expanded"
    /\ UNCHANGED <<tree, specified_leaf_nodes, multi_line_nodes, blank_lines_before,
                   line_break_before, line_break_after, scope_begin, scope_end,
                   counter, ncalls, result, last, deleted, expanded, scoped, panicked>>
    /\ UNCHANGED config_vars

PostProcess ==
    /\ pc = "expanded"
    /\ \E r \in {post_process(atoms, scope_begin, scope_end)} :
           /\ atoms' = r.atoms
           /\ scoped' = r.scoped
           /\ panicked' = r.panicked
    /\ expanded' = atoms
    /\ pc' = "done"
    /\ UNCHANGED <<tree, prepend, append, specified_leaf_nodes, multi_line_nodes,
                   blank_lines_before, line_break_before, line_break_after,
                   scope_begin, scope_end, counter, ncalls, result, last, deleted>>
    /\ UNCHANGED config_vars

Next == ResolveCapture \/ ApplyPrependsAndAppends \/ PostProcess

Spec == Init /\ [][Next]_vars

---------------------------------------------------------------------------
(* Single resolve_capture calls, with the arguments of the call kept.      *)

ResolveCaptureCall ==
    /\ ncalls < MaxCaptures
    /\ \E name \in Names, node \in Nodes, delimiter \in Delimiters, scope_id \in ScopeIds :
          /\ Resolve(name, node, delimiter, scope_id)
          /\ last' = Some([name |-> name, node |-> node, delimiter |-> delimiter,
                           scope_id |-> scope_id, before |-> Self])

InitCall ==
    /\ \E specified \in SpecifiedSets :
          collect_leafs([children |-> Shape, rows |-> RowsBreaks], specified)
    /\ pc = "resolving"
    /\ NoHistory
    /\ NoConfiguration

SpecCall == InitCall /\ [][ResolveCaptureCall]_vars

---------------------------------------------------------------------------
(* The pipeline of a query that only uses the scope captures.              *)

ScopeCaptureNames ==
    { "begin_scope", "end_scope",
      "append_empty_scoped_softline", "append_spaced_scoped_softline",
      "prepend_empty_scoped_softline", "prepend_spaced_scoped_softline" }

ResolveScopeCapture ==
    /\ ncalls < MaxScopeCaptures
    /\ \E name \in ScopeCaptureNames, node \in Nodes, scope_id \in ScopeIds \ {None} :
          Resolve(name, node, None, scope_id)
    /\ UNCHANGED last

NextScope == ResolveScopeCapture \/ ApplyPrependsAndAppends \/ PostProcess

SpecScope == Init /\ [][NextScope]_vars

---------------------------------------------------------------------------
(* The pipeline of a query that deletes nodes and inserts whitespace, on   *)
(* a tree without opaque leaves.                                           *)

DeleteCaptureNames == { "delete", "append_space", "prepend_hardline" }

ResolveDeleteCapture ==
    /\ ncalls < MaxDeleteCaptures
    /\ \E name \in DeleteCaptureNames, node \in Nodes :
          Resolve(name, node, None, None)
    /\ UNCHANGED last

InitDelete ==
    /\ \E t \in Trees : collect_leafs(t, {})
    /\ pc = "resolving"
    /\ NoHistory
    /\ NoConfiguration

NextDelete == ResolveDeleteCapture \/ ApplyPrependsAndAppends \/ PostProcess

SpecDelete == InitDelete /\ [][NextDelete]_vars

---------------------------------------------------------------------------
(* The pipeline of a query that opens and closes scopes on the tokens, on  *)
(* a tree without opaque leaves: enough calls for nested and overlapping   *)
(* scopes.                                                                 *)

NestCaptureNames == { "begin_scope", "end_scope", "append_spaced_scoped_softline" }

Tokens == { node \in Nodes : child_count(node) = 0 }

ResolveNestCapture ==
    /\ ncalls < MaxNestCaptures
    /\ \E name \in NestCaptureNames, node \in Tokens, scope_id \in ScopeIds \ {None} :
          Resolve(name, node, None, scope_id)
    /\ UNCHANGED last

NextNest == ResolveNestCapture \/ ApplyPrependsAndAppends \/ PostProcess

\* token 4 spans two lines, so a scope from 4 is multi-line and one from 5 is not
InitNest ==
    /\ collect_leafs([children |-> Shape, rows |-> RowsToken], {})
    /\ pc = "resolving"
    /\ NoHistory
    /\ NoConfiguration

SpecNest == InitNest /\ [][NextNest]_vars

---------------------------------------------------------------------------
(* apply_prepends_and_appends with the collection it was called on kept;   *)
(* the second call runs on a stream that already holds inserted atoms.     *)

ExpandCaptureNames ==
    { "append_space", "prepend_hardline", "prepend_indent_start", "append_delimiter" }

ResolveExpandCapture ==
    /\ ncalls < MaxExpandCaptures
    /\ \E name \in ExpandCaptureNames, node \in Nodes :
          Resolve(name, node, Some(","), None)
    /\ UNCHANGED last

ApplyPrependsAndAppendsCall ==
    /\ pc \in {"resolving", "expanded"}
    /\ \E r \in {apply_prepends_and_appends(atoms, prepend, append)} :
           /\ atoms' = r.atoms
           /\ prepend' = r.prepend
           /\ append' = r.append
    /\ pc' = IF pc = "resolving" THEN "expanded" ELSE "expanded twice"
    /\ last' = Some([atoms |-> atoms, prepend |-> prepend, append |-> append])
    /\ UNCHANGED <<tree, specified_leaf_nodes, multi_line_nodes, blank_lines_before,
                   line_break_before, line_break_after, scope_begin, scope_end,
                   counter, ncalls, result, deleted, expanded, scoped, panicked>>
    /\ UNCHANGED config_vars

NextExpand == ResolveExpandCapture \/ ApplyPrependsAndAppendsCall

SpecExpand == InitCall /\ [][NextExpand]_vars

---------------------------------------------------------------------------
(* collect_leafs with every set of opaque leaves, followed by the passes   *)
(* of a query without captures.                                            *)

InitCollect ==
    /\ \E t \in Trees, specified \in SUBSET DOMAIN Shape : collect_leafs(t, specified)
    /\ pc = "resolving"
    /\ NoHistory
    /\ NoConfiguration

NextCollect == ApplyPrependsAndAppends \/ PostProcess

SpecCollect == InitCollect /\ [][NextCollect]_vars

---------------------------------------------------------------------------
(* post_process on its own, on every atom sequence up to MaxLen.           *)

Symbols ==
    { "Leaf", "Literal", "Space", "Hardline", "Blankline", "IndentStart",
      "IndentEnd", "DeleteBegin", "DeleteEnd", "ScopedSoftline" }

\* the atom of kind `symbol` at position i; Leaf and ScopedSoftline ids are unique
AtomAt(symbol, i) ==
    CASE symbol = "Leaf" -> Leaf(<<i>>, i)
      [] symbol = "Literal" -> Literal(",")
      [] symbol = "ScopedSoftline" -> ScopedSoftline(i, "a", TRUE)
      [] OTHER -> [kind |-> symbol]

\* scope "a" from the first Leaf of `as` to its last Leaf, closed on row end_row_
ScopeOver(as, end_row_) ==
    LET ids == LeafIds(as)
        first == CHOOSE i \in ids : \A j \in ids : i <= j
        final == CHOOSE i \in ids : \A j \in ids : j <= i
    IN  [scope_begin |-> (first :> [row |-> 0, scope_ids |-> <<"a">>]),
         scope_end |-> (final :> [row |-> end_row_, scope_ids |-> <<"a">>])]

ScopeTables(as) ==
    { [scope_begin |-> EmptyMap, scope_end |-> EmptyMap] }
    \cup (IF LeafIds(as) # {} /\ \E i \in 1..Len(as) : as[i].kind = "ScopedSoftline"
          THEN { ScopeOver(as, r) : r \in {0, 1} } ELSE {})

InitNorm ==
    /\ tree = [children |-> Shape, rows |-> RowsBreaks]
    /\ specified_leaf_nodes = {}
    /\ multi_line_nodes = detect_multi_line_nodes(Root)
    /\ blank_lines_before = detect_blank_lines_before(Root)
    /\ line_break_before = detect_line_break_before_and_after(Root)[1]
    /\ line_break_after = detect_line_break_before_and_after(Root)[2]
    /\ \E n \in 0..MaxLen : \E w \in [1..n -> Symbols] :
          atoms = [i \in 1..n |-> AtomAt(w[i], i)]
    /\ \E t \in ScopeTables(atoms) :
          /\ scope_begin = t.scope_begin
          /\ scope_end = t.scope_end
    /\ prepend = EmptyMap
    /\ append = EmptyMap
    /\ counter = 0
    /\ pc = "expanded"
    /\ NoHistory
    /\ NoConfiguration

SpecNorm == InitNorm /\ [][PostProcess]_vars

---------------------------------------------------------------------------
(* Serialisation (topiary-cli/src/configuration/serde.rs): a list of       *)
(* Language entries, compared through HashMaps keyed on Language::name.    *)

Language(name, extensions, indent) ==
    [name |-> name, extensions |-> extensions, indent |-> indent]

\* the Language values the configuration files of the model may hold
Languages ==
    { Language(name, extensions, None) :
        name \in {"json", "toml"}, extensions \in { {}, {"json"} } }

\* impl From<&Serialisation> for HashMap<String, Language>: HashMap::from_iter
\* inserts the pairs in list order, a later entry replacing an earlier one
RECURSIVE FromIter(_, _)
FromIter(map, language) ==
    IF language = <<>> THEN map
    ELSE FromIter(Insert(map, Head(language).name, Head(language)), Tail(language))

From(language) == FromIter(EmptyMap, language)

\* impl PartialEq for Serialisation
eq(self_language, other_language) ==
    LET lhs == From(self_language)
        rhs == From(other_language)
    IN  lhs = rhs

InitConfig ==
    /\ collect_leafs([children |-> Shape, rows |-> RowsBreaks], {})
    /\ pc = "resolving"
    /\ NoHistory
    /\ \E n \in 0..MaxLanguages, m \in 0..MaxLanguages :
          /\ config_self \in [1..n -> Languages]
          /\ config_other \in [1..m -> Languages]
    /\ config_eq = None

\* one call of self == other
Eq ==
    /\ config_eq = None
    /\ config_eq' = Some(eq(config_self, config_other))
    /\ UNCHANGED <<tree, atoms, prepend, append, specified_leaf_nodes,
                   multi_line_nodes, blank_lines_before, line_break_before,
                   line_break_after, scope_begin, scope_end, counter, pc, ncalls,
                   result, last, deleted, expanded, scoped, panicked,
                   config_self, config_other>>

SpecConfig == InitConfig /\ [][Eq]_vars

---------------------------------------------------------------------------
(* Vocabulary of the properties. *)

IsLeaf(a) == a.kind = "Leaf"
IsScopedSoftline(a) == a.kind = "ScopedSoftline"
Leaves(as) == SelectSeq(as, IsLeaf)
Contains(as, a) == \E i \in 1..Len(as) : as[i] = a

RECURSIVE IsSubsequence(_, _)
IsSubsequence(a, b) ==
    IF a = <<>> THEN TRUE
    ELSE IF b = <<>> THEN FALSE
    ELSE IF Head(a) = Head(b) THEN IsSubsequence(Tail(a), Tail(b))
    ELSE IsSubsequence(a, Tail(b))

RECURSIVE Flatten(_)
Flatten(ss) == IF ss = <<>> THEN <<>> ELSE Head(ss) \o Flatten(Tail(ss))

\* the node and its descendants
RECURSIVE Subtree(_)
Subtree(node) ==
    {node} \cup UNION { Subtree(children(node)[i]) : i \in 1..child_count(node) }

Collected == collect_leafs_inner(Root, specified_leaf_nodes)

---------------------------------------------------------------------------
(* C1  Terminal newline: whatever atom sequence and scope tables           *)
(* post_process is given (the empty sequence included), the sequence it    *)
(* leaves is non-empty and ends with Hardline.                             *)

C1_TerminalNewline ==
    pc = "done" => atoms # <<>> /\ atoms[Len(atoms)] = Hardline

C1_Witness ==
    pc = "done" /\ expanded = <<>> /\ atoms = <<Hardline>>

(* C2  Whitespace dominance: the sequence left by post_process has no two  *)
(* adjacent atoms that are both Space, Hardline or Blankline.              *)

C2_NoAdjacentWhitespace ==
    pc = "done" =>
        \A i \in 1..(Len(atoms) - 1) :
            ~(atoms[i] \in Whitespace /\ atoms[i + 1] \in Whitespace)

(* C3  Indent locality: in the sequence left by post_process no Space,     *)
(* Hardline or Blankline is immediately followed by IndentStart or         *)
(* IndentEnd.                                                              *)

C3_IndentLocality ==
    pc = "done" =>
        \A i \in 1..(Len(atoms) - 1) :
            ~(atoms[i] \in Whitespace /\ atoms[i + 1] \in Indents)

\* whitespace, an empty delete region, then an indent marker: the marker
\* has been moved in front of the whitespace
C3_Witness ==
    /\ pc = "done"
    /\ \E i \in 2..(Len(expanded) - 3) :
          /\ expanded[i - 1].kind \in {"Leaf", "Literal"}
          /\ expanded[i] \in Whitespace
          /\ expanded[i + 1] = DeleteBegin
          /\ expanded[i + 2] = DeleteEnd
          /\ expanded[i + 3] \in Indents
    /\ \E j \in 1..(Len(atoms) - 1) :
          atoms[j] \in Indents /\ atoms[j + 1] \in Whitespace

(* C4  Leaf preservation: after any resolve_capture calls, expansion and   *)
(* post_process, the Leaf atoms of the final sequence are, in order, a     *)
(* subsequence of the Leaf atoms collect_leafs produced, and exactly that  *)
(* sequence when no `delete` capture was resolved.                         *)

C4_LeafPreservation ==
    pc = "done" =>
        /\ IsSubsequence(Leaves(atoms), Collected)
        /\ deleted = {} => Leaves(atoms) = Collected

\* a delete capture took a Leaf away, other captures were resolved too
C4_Witness ==
    /\ pc = "done"
    /\ deleted # {}
    /\ Leaves(atoms) # Collected
    /\ Leaves(atoms) # <<>>
    /\ Len(expanded) > Len(Collected) + 2

(* C5  No delete markers survive: the sequence left by post_process holds  *)
(* neither DeleteBegin nor DeleteEnd.                                      *)

C5_NoDeleteMarkers ==
    pc = "done" => ~Contains(atoms, DeleteBegin) /\ ~Contains(atoms, DeleteEnd)

(* C6  Delete regions are dropped: for every node captured with `delete`,  *)
(* no Leaf of that node (a Leaf whose node is the captured node or one of  *)
(* its descendants) is in the sequence left by post_process.               *)

C6_DeleteRegionsDropped ==
    pc = "done" =>
        \A node \in deleted : \A i \in 1..Len(atoms) :
            IsLeaf(atoms[i]) => atoms[i].id \notin Subtree(node)

(* C7  No ScopedSoftline survives scope resolution: neither the sequence   *)
(* post_process_scopes leaves nor the one post_process leaves holds a      *)
(* ScopedSoftline.                                                         *)

C7_NoScopedSoftline ==
    pc = "done" =>
        /\ \A i \in 1..Len(scoped) : ~IsScopedSoftline(scoped[i])
        /\ \A i \in 1..Len(atoms) : ~IsScopedSoftline(atoms[i])

\* a softline in a scope that is opened and never closed
C7_Witness ==
    /\ pc = "done"
    /\ DOMAIN scope_begin # {}
    /\ DOMAIN scope_end = {}
    /\ \E i \in 2..Len(expanded) :
          /\ IsScopedSoftline(expanded[i])
          /\ IsLeaf(expanded[i - 1])
          /\ expanded[i - 1].id \in DOMAIN scope_begin
          /\ expanded[i].scope_id = scope_begin[expanded[i - 1].id].scope_ids[1]

(* C8  resolve_capture returns a QueryError exactly when the name is not   *)
(* a recognised capture name, or the name is one of the four delimiter     *)
(* captures and the delimiter is absent, or the name is begin_scope,       *)
(* end_scope or one of the four scoped softline captures and the scope id  *)
(* is absent; otherwise it returns Ok.                                     *)

RecognisedNames ==
    { "leaf", "delete", "allow_blank_line_before",
      "append_space", "prepend_space", "append_hardline", "prepend_hardline",
      "append_indent_start", "prepend_indent_start",
      "append_indent_end", "prepend_indent_end",
      "append_empty_softline", "prepend_empty_softline",
      "append_spaced_softline", "prepend_spaced_softline",
      "append_input_softline", "prepend_input_softline",
      "append_delimiter", "prepend_delimiter",
      "append_multiline_delimiter", "prepend_multiline_delimiter",
      "append_empty_scoped_softline", "prepend_empty_scoped_softline",
      "append_spaced_scoped_softline", "prepend_spaced_scoped_softline",
      "begin_scope", "end_scope" }

NeedsDelimiter ==
    { "append_delimiter", "prepend_delimiter",
      "append_multiline_delimiter", "prepend_multiline_delimiter" }

NeedsScopeId ==
    { "begin_scope", "end_scope",
      "append_empty_scoped_softline", "prepend_empty_scoped_softline",
      "append_spaced_scoped_softline", "prepend_spaced_scoped_softline" }

C8_QueryErrorCases ==
    \A call \in last :
        result = "QueryError" <=>
            \/ call.name \notin RecognisedNames
            \/ call.name \in NeedsDelimiter /\ call.delimiter = None
            \/ call.name \in NeedsScopeId /\ call.scope_id = None

C8_Witness ==
    \E call \in last :
        /\ call.name = "prepend_spaced_scoped_softline"
        /\ call.scope_id = None
        /\ call.delimiter # None
        /\ result = "QueryError"

(* C9  Softline expansion at resolution time: an append_/prepend_          *)
(* {empty,spaced}_softline capture on node n stores Hardline when n has a  *)
(* parent in multi_line_nodes, Space when n has a parent that is not       *)
(* multi-line and the softline is spaced, and nothing when the parent is   *)
(* not multi-line and the softline is not spaced or when n has no parent.  *)

SoftlineNames ==
    { "append_empty_softline", "append_spaced_softline",
      "prepend_empty_softline", "prepend_spaced_softline" }

\* `after` is `before` with `atom` pushed at the end of one bucket
StoredIn(before, after, atom) ==
    \E key \in Nodes : after = PushEntry(before, key, atom)

C9_SoftlineExpansion ==
    \A call \in last :
        call.name \in SoftlineNames =>
            LET prepends == call.name \in {"prepend_empty_softline", "prepend_spaced_softline"}
                spaced == call.name \in {"append_spaced_softline", "prepend_spaced_softline"}
                before == IF prepends THEN call.before.prepend ELSE call.before.append
                after == IF prepends THEN prepend ELSE append
                untouched == IF prepends THEN append = call.before.append
                             ELSE prepend = call.before.prepend
            IN  /\ result = "Ok"
                /\ untouched
                /\ IF parent(call.node) = None THEN after = before
                   ELSE IF Unwrap(parent(call.node)) \in multi_line_nodes
                        THEN StoredIn(before, after, Hardline)
                   ELSE IF spaced THEN StoredIn(before, after, Space)
                   ELSE after = before

\* an empty softline under a multi-line parent, stored as Hardline behind
\* an atom an earlier capture had put in the same bucket
C9_Witness ==
    \E call \in last :
        /\ call.name = "append_empty_softline"
        /\ parent(call.node) # None
        /\ Unwrap(parent(call.node)) \in multi_line_nodes
        /\ \E key \in DOMAIN call.before.append :
              append = PushEntry(call.before.append, key, Hardline)

(* C10  Scoped softline resolution: a ScopedSoftline attached to a scope   *)
(* frame that is later closed is replaced by Hardline when the start row   *)
(* of the leaf the scope begins at differs from the end row of the leaf    *)
(* the scope ends at, otherwise by Space when it is spaced, and otherwise  *)
(* it is removed.  (A ScopedSoftline with no frame, or whose frame is      *)
(* never closed, is removed.)  Frames are read off the stream by nesting   *)
(* depth, per scope id.                                                    *)

Count(seq, x) == Cardinality({ k \in 1..Len(seq) : seq[k] = x })
Max(a, b) == IF a >= b THEN a ELSE b

\* how many frames of scope_id the atom at position j opens and closes
Opens(as, j, scope_id) ==
    IF IsLeaf(as[j]) /\ as[j].id \in DOMAIN scope_begin
    THEN Count(scope_begin[as[j].id].scope_ids, scope_id) ELSE 0
Closes(as, j, scope_id) ==
    IF IsLeaf(as[j]) /\ as[j].id \in DOMAIN scope_end
    THEN Count(scope_end[as[j].id].scope_ids, scope_id) ELSE 0

\* the number of open frames of scope_id just before position j
RECURSIVE Depth(_, _, _)
Depth(as, j, scope_id) ==
    IF j = 1 THEN 0
    ELSE Max(0, Depth(as, j - 1, scope_id)
                + Opens(as, j - 1, scope_id) - Closes(as, j - 1, scope_id))

\* the positions of the leaves that open and close the frame the
\* ScopedSoftline at position i lies in
OpenedAt(as, i) ==
    LET s == as[i].scope_id
        level == Depth(as, i, s)
        before == { q \in 1..(i - 1) : Depth(as, q, s) < level }
    IN  CHOOSE q \in before : \A q2 \in before : q2 <= q
ClosingPositions(as, i) ==
    LET s == as[i].scope_id
        level == Depth(as, i, s)
    IN  { r \in (i + 1)..Len(as) :
            Depth(as, r, s) + Opens(as, r, s) - Closes(as, r, s) < level }
ClosedAt(as, i) ==
    CHOOSE r \in ClosingPositions(as, i) : \A r2 \in ClosingPositions(as, i) : r <= r2

AttachedAndClosed(as, i) ==
    /\ IsScopedSoftline(as[i])
    /\ Depth(as, i, as[i].scope_id) > 0
    /\ ClosingPositions(as, i) # {}

ScopeIsMultiline(as, i) ==
    start_row(as[OpenedAt(as, i)].id) # end_row(as[ClosedAt(as, i)].id)

ExpectedScoped(as, i) ==
    IF ~IsScopedSoftline(as[i]) THEN << as[i] >>
    ELSE IF ~AttachedAndClosed(as, i) THEN <<>>
    ELSE IF ScopeIsMultiline(as, i) THEN << Hardline >>
    ELSE IF as[i].spaced THEN << Space >>
    ELSE <<>>

C10_ScopedSoftlineResolution ==
    pc = "done" =>
        scoped = Flatten([i \in 1..Len(expanded) |-> ExpectedScoped(expanded, i)])

\* an empty softline in a closed scope that spans several rows
C10_Witness ==
    /\ pc = "done"
    /\ \E i \in 1..Len(expanded) :
          /\ AttachedAndClosed(expanded, i)
          /\ ScopeIsMultiline(expanded, i)
          /\ ~expanded[i].spaced
    /\ Contains(scoped, Hardline)

(* C11  Scope anomalies are non-fatal: when an end_scope finds no open     *)
(* frame, a ScopedSoftline has no open frame of its scope id, or a frame   *)
(* is still open at the end of the stream, post_process_scopes still runs  *)
(* its rewrite pass, leaves no ScopedSoftline behind, and replaces every   *)
(* ScopedSoftline of a properly closed scope as that scope decides.        *)

UnopenedClose(as) ==
    \E j \in 1..Len(as), s \in {"a", "b"} :
        Depth(as, j, s) + Opens(as, j, s) < Closes(as, j, s)
OrphanSoftline(as) ==
    \E i \in 1..Len(as) :
        IsScopedSoftline(as[i]) /\ Depth(as, i, as[i].scope_id) = 0
DanglingOpen(as) ==
    \E s \in {"a", "b"} : Depth(as, Len(as) + 1, s) > 0
Anomaly(as) == UnopenedClose(as) \/ OrphanSoftline(as) \/ DanglingOpen(as)

C11_AnomaliesNonFatal ==
    pc = "done" /\ Anomaly(expanded) =>
        /\ post_process_scopes(expanded, scope_begin, scope_end).applied
        /\ \A i \in 1..Len(scoped) : ~IsScopedSoftline(scoped[i])
        /\ Len(scoped) = Len(expanded)
                - Cardinality({ i \in 1..Len(expanded) :
                                  ExpectedScoped(expanded, i) = <<>> })
        /\ \A i \in 1..Len(expanded) :
              AttachedAndClosed(expanded, i) =>
                  IsSubsequence(ExpectedScoped(expanded, i), scoped)

\* a softline of a closed scope next to an orphan one and a scope left open
C11_Witness ==
    /\ pc = "done"
    /\ OrphanSoftline(expanded)
    /\ DanglingOpen(expanded)
    /\ \E i \in 1..Len(expanded) :
          AttachedAndClosed(expanded, i) /\ ~ScopeIsMultiline(expanded, i)
    /\ Contains(scoped, Space)

(* C12  No leading whitespace: the first atom of the sequence left by     *)
(* post_process is not Space, Hardline or Blankline, whatever the input    *)
(* (empty, whitespace only, or wholly inside a delete region included).    *)

C12_NoLeadingWhitespace ==
    pc = "done" => atoms = <<>> \/ atoms[1] \notin Whitespace

(* C13  Re-homing invariant: after any sequence of resolve_capture calls   *)
(* every key of prepend and of append is the id of a Leaf atom present in  *)
(* `atoms`, for every set of opaque leaves, nested ones included.          *)

C13_RehomingInvariant ==
    (DOMAIN prepend \cup DOMAIN append) \subseteq LeafIds(atoms)

(* C14  ScopedSoftline ids are unique and monotonic: over any sequence of  *)
(* resolve_capture calls, failing ones included, no two ScopedSoftline     *)
(* atoms stored in prepend/append carry the same id, and a ScopedSoftline  *)
(* stored by a later call has a strictly greater id than every one stored  *)
(* by an earlier call.                                                     *)

\* where the ScopedSoftlines are stored: <<table, key, index>>
StoredSoftlines(table, map) ==
    UNION { { <<table, k, i>> :
                i \in { j \in 1..Len(map[k]) : IsScopedSoftline(map[k][j]) } } :
            k \in DOMAIN map }
SoftlinePositions(pre, app) ==
    StoredSoftlines("prepend", pre) \cup StoredSoftlines("append", app)
SoftlineIds(pre, app) ==
    { (IF p[1] = "prepend" THEN pre ELSE app)[p[2]][p[3]].id :
        p \in SoftlinePositions(pre, app) }

C14_UniqueMonotonicIds ==
    /\ Cardinality(SoftlinePositions(prepend, append))
           = Cardinality(SoftlineIds(prepend, append))
    /\ \A id \in SoftlineIds(prepend, append) : 1 <= id /\ id <= counter
    /\ \A call \in last :
          /\ SoftlineIds(call.before.prepend, call.before.append)
                 \subseteq SoftlineIds(prepend, append)
          /\ \A new \in SoftlineIds(prepend, append)
                          \ SoftlineIds(call.before.prepend, call.before.append) :
                /\ new > call.before.counter
                /\ \A old \in SoftlineIds(call.before.prepend, call.before.append) :
                      new > old

\* a second scoped softline is stored in the bucket that holds the first
C14_Witness ==
    \E call \in last :
        /\ SoftlineIds(call.before.prepend, call.before.append) = {1}
        /\ SoftlineIds(prepend, append) = {1, 2}
        /\ \E k \in DOMAIN append : Len(append[k]) = 2

(* C15  Input softlines follow the source: append_input_softline on a     *)
(* node n, leaf or not, appends Hardline when n ends on an earlier row     *)
(* than the next node of the source starts on, and Space otherwise;        *)
(* prepend_input_softline prepends Hardline when the node before n ends    *)
(* on an earlier row than n starts on, and Space otherwise.                *)

\* the tokens of the source, in order, and the position of a token in it
SourceTokens == utf8_text(Root)
TokenIndex(token) == CHOOSE i \in 1..Len(SourceTokens) : SourceTokens[i] = token

FollowedByLineBreak(n) ==
    LET i == TokenIndex(last_leaf(n))
    IN  i < Len(SourceTokens) /\ end_row(n) < start_row(SourceTokens[i + 1])
PrecededByLineBreak(n) ==
    LET i == TokenIndex(first_leaf(n))
    IN  i > 1 /\ end_row(SourceTokens[i - 1]) < start_row(n)

C15_InputSoftlines ==
    \A call \in last :
        /\ call.name = "append_input_softline" =>
              StoredIn(call.before.append, append,
                       IF FollowedByLineBreak(call.node) THEN Hardline ELSE Space)
        /\ call.name = "prepend_input_softline" =>
              StoredIn(call.before.prepend, prepend,
                       IF PrecededByLineBreak(call.node) THEN Hardline ELSE Space)

(* C17  Scopes nest as stacks per scope id: a ScopedSoftline is attached   *)
(* to the innermost frame of its own scope id that is open where it is     *)
(* met, an end_scope pops only the innermost open frame of its own scope   *)
(* id, and the softline is resolved with the rows of exactly that frame:   *)
(* never with an outer frame of the same id, nor with a frame of another   *)
(* scope id, also when scopes of different ids overlap.                    *)

\* a scope table without the scopes of the other scope ids
OnlyScope(map, scope_id) ==
    LET own(s) == s = scope_id
        keys == { k \in DOMAIN map : SelectSeq(map[k].scope_ids, own) # <<>> }
    IN  [k \in keys |->
            [row |-> map[k].row, scope_ids |-> SelectSeq(map[k].scope_ids, own)]]

\* what the frame of the ScopedSoftline at position i decides for it
FrameDecision(as, i) ==
    IF ScopeIsMultiline(as, i) THEN Some(Hardline)
    ELSE IF as[i].spaced THEN Some(Space)
    ELSE None

C17_ScopesNestPerId ==
    pc = "done" =>
        \A i \in 1..Len(expanded) :
            IsScopedSoftline(expanded[i]) =>
                LET id == expanded[i].id
                    s == expanded[i].scope_id
                    full == post_process_scopes(expanded, scope_begin,
                                                scope_end).modifications
                    own == post_process_scopes(expanded, OnlyScope(scope_begin, s),
                                               OnlyScope(scope_end, s)).modifications
                IN  /\ id \in DOMAIN full <=> AttachedAndClosed(expanded, i)
                    /\ id \in DOMAIN full => full[id] = FrameDecision(expanded, i)
                    /\ id \in DOMAIN full <=> id \in DOMAIN own
                    /\ id \in DOMAIN full => full[id] = own[id]

\* a softline in a single-line scope that lies inside a multi-line scope of
\* the same id, while a scope of the other id overlaps
C17_Witness ==
    /\ pc = "done"
    /\ 4 \in DOMAIN scope_begin
    /\ \E i \in 1..Len(expanded) :
          /\ AttachedAndClosed(expanded, i)
          /\ Count(scope_begin[4].scope_ids, expanded[i].scope_id) = 1
          /\ Depth(expanded, i, expanded[i].scope_id) = 2
          /\ ~ScopeIsMultiline(expanded, i)
          /\ \E s \in {"a", "b"} \ {expanded[i].scope_id} : Depth(expanded, i, s) > 0
    /\ Contains(scoped, Space)

(* C18  Scope resolution touches only ScopedSoftlines: post_process_scopes *)
(* keeps every atom that is not a ScopedSoftline, unchanged and in the     *)
(* same relative order (each ScopedSoftline becomes Hardline, Space or     *)
(* nothing), and when no replacement was recorded and no anomaly was       *)
(* detected it leaves `atoms` exactly as it was.                           *)

\* `out` is `as` with every ScopedSoftline replaced by Hardline, Space or nothing
RECURSIVE OnlySoftlinesTouched(_, _)
OnlySoftlinesTouched(as, out) ==
    IF as = <<>> THEN out = <<>>
    ELSE IF IsScopedSoftline(Head(as))
         THEN \/ OnlySoftlinesTouched(Tail(as), out)
              \/ /\ out # <<>>
                 /\ Head(out) \in {Hardline, Space}
                 /\ OnlySoftlinesTouched(Tail(as), Tail(out))
    ELSE /\ out # <<>>
         /\ Head(out) = Head(as)
         /\ OnlySoftlinesTouched(Tail(as), Tail(out))

NoReplacementRecorded(as) == \A i \in 1..Len(as) : ~AttachedAndClosed(as, i)

C18_OnlySoftlinesTouched ==
    pc = "done" =>
        /\ OnlySoftlinesTouched(expanded, scoped)
        /\ NoReplacementRecorded(expanded) /\ ~Anomaly(expanded) => scoped = expanded

\* an orphan softline is dropped and one of a closed scope is replaced, with
\* a Literal next to them
C18_Witness ==
    /\ pc = "done"
    /\ OrphanSoftline(expanded)
    /\ \E i \in 1..Len(expanded) : AttachedAndClosed(expanded, i)
    /\ Contains(expanded, Literal(","))
    /\ Len(scoped) = Len(expanded) - 1

(* C19  Expansion order: apply_prepends_and_appends replaces each Leaf     *)
(* with id i by the atoms of prepend[i] in insertion order, the Leaf, then *)
(* the atoms of append[i] in insertion order; it keeps the Leaf atoms in   *)
(* their order and every non-Leaf atom unchanged; the new length is the    *)
(* old one plus the sizes of the buckets of the Leaf ids present.          *)

Bucket(map, key) == IF key \in DOMAIN map THEN map[key] ELSE <<>>

RECURSIVE Sum(_)
Sum(seq) == IF seq = <<>> THEN 0 ELSE Head(seq) + Sum(Tail(seq))

ExpectedExpansion(as, pre, app, i) ==
    IF IsLeaf(as[i])
    THEN Bucket(pre, as[i].id) \o << as[i] >> \o Bucket(app, as[i].id)
    ELSE << as[i] >>

C19_ExpansionOrder ==
    \A call \in last :
        /\ atoms = Flatten([i \in 1..Len(call.atoms) |->
                      ExpectedExpansion(call.atoms, call.prepend, call.append, i)])
        /\ Leaves(atoms) = Leaves(call.atoms)
        /\ Len(atoms) = Len(call.atoms)
              + Sum([i \in 1..Len(call.atoms) |->
                       IF IsLeaf(call.atoms[i])
                       THEN Len(Bucket(call.prepend, call.atoms[i].id))
                            + Len(Bucket(call.append, call.atoms[i].id))
                       ELSE 0])

\* the second expansion: the stream holds inserted atoms, one Leaf has two
\* prepended atoms and an appended one
C19_Witness ==
    /\ pc = "expanded twice"
    /\ \E call \in last :
          /\ \E i \in 1..Len(call.atoms) : ~IsLeaf(call.atoms[i])
          /\ \E k \in LeafIds(call.atoms) :
                /\ Len(Bucket(call.prepend, k)) = 2
                /\ call.prepend[k][1] # call.prepend[k][2]
                /\ Len(Bucket(call.append, k)) = 1
          /\ Len(atoms) > Len(call.atoms)

(* C20  Capture resolution is purely additive: a resolve_capture call      *)
(* leaves `atoms` unchanged and, in prepend, append, scope_begin and       *)
(* scope_end, removes no key and only pushes at the end of lists: every    *)
(* list present before the call is a prefix of the list under the same key *)
(* after it.                                                               *)

IsPrefix(a, b) == Len(a) <= Len(b) /\ SubSeq(b, 1, Len(a)) = a

ExtendsBuckets(before, after) ==
    /\ DOMAIN before \subseteq DOMAIN after
    /\ \A k \in DOMAIN before : IsPrefix(before[k], after[k])
ExtendsScopes(before, after) ==
    /\ DOMAIN before \subseteq DOMAIN after
    /\ \A k \in DOMAIN before : IsPrefix(before[k].scope_ids, after[k].scope_ids)

C20_PurelyAdditive ==
    /\ atoms = Collected
    /\ \A call \in last :
          /\ ExtendsBuckets(call.before.prepend, prepend)
          /\ ExtendsBuckets(call.before.append, append)
          /\ ExtendsScopes(call.before.scope_begin, scope_begin)
          /\ ExtendsScopes(call.before.scope_end, scope_end)

\* a second `delete` on a node pushes behind the markers of the first
C20_Witness ==
    \E call \in last :
        /\ call.name = "delete"
        /\ \E k \in DOMAIN call.before.prepend \cap DOMAIN call.before.append :
              /\ prepend[k] = Append(call.before.prepend[k], DeleteBegin)
              /\ append[k] = Append(call.before.append[k], DeleteEnd)
              /\ call.before.prepend[k] # <<>>
              /\ call.before.append[k] # <<>>

(* C21  Side tables are read-only after resolution: every step of          *)
(* apply_prepends_and_appends and of post_process leaves prepend, append,  *)
(* scope_begin, scope_end and counter exactly as the last resolve_capture  *)
(* call left them (same keys, same lists).                                 *)

C21_SideTablesReadOnly ==
    [][pc' # "resolving" =>
          /\ prepend' = prepend
          /\ append' = append
          /\ scope_begin' = scope_begin
          /\ scope_end' = scope_end
          /\ counter' = counter]_vars

(* C22  No bare Softline or MultilineOnlyLiteral is ever stored: after any *)
(* sequence of resolve_capture calls prepend and append hold no Softline   *)
(* and no MultilineOnlyLiteral; a *_multiline_delimiter capture with       *)
(* delimiter l stores Literal(l) when the captured node has a parent in    *)
(* multi_line_nodes and stores nothing otherwise.                          *)

StoredKinds(map) ==
    UNION { { map[k][i].kind : i \in 1..Len(map[k]) } : k \in DOMAIN map }

MultilineDelimiterNames == { "append_multiline_delimiter", "prepend_multiline_delimiter" }

C22_NoBareSoftline ==
    /\ (StoredKinds(prepend) \cup StoredKinds(append))
            \cap {"Softline", "MultilineOnlyLiteral"} = {}
    /\ \A call \in last :
          call.name \in MultilineDelimiterNames /\ call.delimiter # None =>
              LET prepends == call.name = "prepend_multiline_delimiter"
                  before == IF prepends THEN call.before.prepend ELSE call.before.append
                  after == IF prepends THEN prepend ELSE append
                  untouched == IF prepends THEN append = call.before.append
                               ELSE prepend = call.before.prepend
              IN  /\ result = "Ok"
                  /\ untouched
                  /\ IF parent(call.node) # None
                        /\ Unwrap(parent(call.node)) \in multi_line_nodes
                     THEN StoredIn(before, after, Literal(Unwrap(call.delimiter)))
                     ELSE after = before

\* a multi-line delimiter stored as a Literal behind an atom stored earlier
C22_Witness ==
    \E call \in last :
        /\ call.name = "prepend_multiline_delimiter"
        /\ parent(call.node) # None
        /\ Unwrap(parent(call.node)) \in multi_line_nodes
        /\ \E key \in DOMAIN call.before.prepend :
              /\ call.before.prepend[key] # <<>>
              /\ prepend = PushEntry(call.before.prepend, key, Literal(","))

(* C23  Leaf collection covers the tree exactly once: collect_leafs emits  *)
(* a Leaf for a node iff the node is childless or in specified_leaf_nodes  *)
(* and none of its proper ancestors is in specified_leaf_nodes; the Leaf   *)
(* atoms are in depth-first child order, their ids are pairwise distinct,  *)
(* no Leaf's node is an ancestor of another Leaf's node, and every         *)
(* childless node is a Leaf or has exactly one ancestor that is a Leaf.    *)

ProperAncestors(node) == { a \in Nodes : a # node /\ node \in Subtree(a) }

IsCollected(node) ==
    /\ child_count(node) = 0 \/ node \in specified_leaf_nodes
    /\ ProperAncestors(node) \cap specified_leaf_nodes = {}

C23_LeafCollection ==
    pc = "resolving" =>
        /\ \A i \in 1..Len(atoms) :
              IsLeaf(atoms[i]) /\ atoms[i].content = utf8_text(atoms[i].id)
        /\ LeafIds(atoms) = { node \in Nodes : IsCollected(node) }
        /\ Cardinality(LeafIds(atoms)) = Len(atoms)
        /\ IsSubsequence([i \in 1..Len(atoms) |-> atoms[i].id], Visit(Root))
        /\ \A a \in LeafIds(atoms), b \in LeafIds(atoms) :
              a # b => a \notin Subtree(b)
        /\ \A node \in Nodes :
              child_count(node) = 0 =>
                  Cardinality({ l \in LeafIds(atoms) : node \in Subtree(l) }) = 1

\* an opaque leaf inside another one and an opaque token: two Leaf atoms
C23_Witness ==
    /\ pc = "resolving"
    /\ specified_leaf_nodes = {2, 3, 6}
    /\ Len(atoms) = 2
    /\ atoms[1].id = 2

(* C24  Whitespace runs collapse by dominance and move behind indent       *)
(* markers: every maximal run of Space/Hardline/Blankline and              *)
(* IndentStart/IndentEnd atoms that lies outside delete regions, follows a *)
(* retained non-whitespace atom, holds at least one whitespace atom and is *)
(* followed by a Leaf or Literal is emitted as its indent markers in their *)
(* order followed by exactly one whitespace atom, the greatest of the run  *)
(* under Blankline > Hardline > Space.                                     *)

\* a delete region is open behind position j of the normaliser's input
RECURSIVE InDeleteRegion(_, _)
InDeleteRegion(as, j) ==
    IF j = 0 THEN FALSE
    ELSE IF InDeleteRegion(as, j - 1) THEN as[j] # DeleteEnd
    ELSE as[j] = DeleteBegin

InRun(a) == a \in Whitespace \cup Indents

\* positions a..b of `as` are a maximal run as the property describes it
IsCollapsingRun(as, a, b) ==
    /\ 1 < a /\ a <= b /\ b < Len(as)
    /\ \A k \in a..b : InRun(as[k])
    /\ \E k \in a..b : as[k] \in Whitespace
    /\ ~InRun(as[a - 1])
    /\ as[a - 1].kind \in {"Leaf", "Literal", "DeleteEnd"}
    /\ ~InDeleteRegion(as, a - 2)
    /\ as[b + 1].kind \in {"Leaf", "Literal"}

IsIndent(a) == a \in Indents

Greatest(as, a, b) ==
    IF \E k \in a..b : as[k] = Blankline THEN Blankline
    ELSE IF \E k \in a..b : as[k] = Hardline THEN Hardline
    ELSE Space

CollapsedRun(as, a, b) ==
    << as[a - 1] >> \o SelectSeq(SubSeq(as, a, b), IsIndent)
        \o << Greatest(as, a, b), as[b + 1] >>

HasSegment(out, seg) ==
    \E k \in 0..(Len(out) - Len(seg)) : SubSeq(out, k + 1, k + Len(seg)) = seg

C24_RunsCollapse ==
    pc = "done" =>
        \A a \in 1..Len(scoped), b \in 1..Len(scoped) :
            IsCollapsingRun(scoped, a, b) =>
                HasSegment(atoms, CollapsedRun(scoped, a, b))

\* Space, an indent marker and a Blankline between two leaves
C24_Witness ==
    /\ pc = "done"
    /\ \E a \in 1..Len(scoped) :
          /\ IsCollapsingRun(scoped, a, a + 2)
          /\ scoped[a] = Space
          /\ scoped[a + 1] \in Indents
          /\ scoped[a + 2] = Blankline
          /\ IsLeaf(scoped[a - 1])
          /\ HasSegment(atoms, << scoped[a + 1], Blankline, scoped[a + 3] >>)

(* C25  The final Hardline is appended only when needed: when the          *)
(* normaliser's pass ends with a Hardline nothing is appended; otherwise   *)
(* exactly one Hardline is appended and nothing else is changed, so a      *)
(* trailing Blankline survives, followed by the appended Hardline.         *)

\* the vector the loop of post_process leaves before the final Hardline
PassResult == Normalise(<<>>, scoped).new_vec

EndsWith(seq, tail) ==
    Len(tail) <= Len(seq) /\ SubSeq(seq, Len(seq) - Len(tail) + 1, Len(seq)) = tail

C25_FinalHardlineOnlyWhenNeeded ==
    pc = "done" =>
        /\ EndsWith(PassResult, <<Hardline>>) => atoms = PassResult
        /\ ~EndsWith(PassResult, <<Hardline>>) => atoms = Append(PassResult, Hardline)
        /\ \A n \in 2..Len(scoped) :
              /\ n = Len(scoped)
              /\ scoped[n] = Blankline
              /\ scoped[n - 1].kind \in {"Leaf", "Literal"}
              /\ ~InDeleteRegion(scoped, n)
              => EndsWith(atoms, << scoped[n - 1], Blankline, Hardline >>)

\* a Blankline behind the last Leaf is still there, in front of the Hardline
C25_Witness ==
    /\ pc = "done"
    /\ Len(scoped) >= 2
    /\ scoped[Len(scoped)] = Blankline
    /\ IsLeaf(scoped[Len(scoped) - 1])
    /\ EndsWith(atoms, << scoped[Len(scoped) - 1], Blankline, Hardline >>)

(* C26  Equality of Serialisation values is order-invariant: for every    *)
(* pair of values whose `language` lists are permutations of each other    *)
(* (lists holding several entries with the same name included), eq         *)
(* returns true.                                                           *)

IsPermutation(a, b) ==
    /\ Len(a) = Len(b)
    /\ \A l \in Languages : Count(a, l) = Count(b, l)

C26_EqOrderInvariant ==
    config_eq # None /\ IsPermutation(config_self, config_other) =>
        config_eq = Some(TRUE)

(* C27  A scope covers only what lies between its two leaves: a           *)
(* ScopedSoftline prepended to the leaf at which its scope begins, or      *)
(* appended to the leaf at which its scope ends, is met outside that       *)
(* scope's frame; if no other frame of its scope id is open it is treated  *)
(* as an orphan and removed, whatever the scope's rows and its spaced      *)
(* flag.                                                                   *)

InBucket(map, key, atom) == key \in DOMAIN map /\ Contains(map[key], atom)
OpensOrCloses(map, key, scope_id) ==
    key \in DOMAIN map /\ Contains(map[key].scope_ids, scope_id)

\* the ScopedSoftline was prepended to the leaf at position j, which begins
\* its scope, or appended to it, which ends its scope, and no frame of its
\* scope id is open in front of that leaf, respectively behind it
BoundaryOrphan(as, j, atom) ==
    /\ IsLeaf(as[j])
    /\ IsScopedSoftline(atom)
    /\ \/ /\ InBucket(prepend, as[j].id, atom)
          /\ OpensOrCloses(scope_begin, as[j].id, atom.scope_id)
          /\ Depth(as, j, atom.scope_id) = 0
       \/ /\ InBucket(append, as[j].id, atom)
          /\ OpensOrCloses(scope_end, as[j].id, atom.scope_id)
          /\ Depth(as, j + 1, atom.scope_id) = 0

IsBoundaryOrphan(as, atom) == \E j \in 1..Len(as) : BoundaryOrphan(as, j, atom)

IsNotScopedSoftline(a) == ~IsScopedSoftline(a)

C27_ScopeBoundaries ==
    pc = "done" =>
        /\ \A i \in 1..Len(expanded) :
              IsBoundaryOrphan(expanded, expanded[i]) =>
                  expanded[i].id \notin
                      DOMAIN post_process_scopes(expanded, scope_begin,
                                                 scope_end).modifications
        /\ (\A i \in 1..Len(expanded) :
                IsScopedSoftline(expanded[i]) => IsBoundaryOrphan(expanded, expanded[i]))
             => scoped = SelectSeq(expanded, IsNotScopedSoftline)

\* a spaced softline prepended to the first leaf of a closed multi-line scope
C27_Witness ==
    /\ pc = "done"
    /\ \E i \in 1..(Len(expanded) - 1) :
          /\ BoundaryOrphan(expanded, i + 1, expanded[i])
          /\ expanded[i].spaced
          /\ InBucket(prepend, expanded[i + 1].id, expanded[i])
          /\ \E leaf \in DOMAIN scope_end :
                /\ OpensOrCloses(scope_end, leaf, expanded[i].scope_id)
                /\ scope_end[leaf].row # scope_begin[expanded[i + 1].id].row
    /\ scoped = Leaves(expanded)

(* C28  A failed capture changes nothing: every resolve_capture call that  *)
(* returns a QueryError leaves the whole collection state (atoms, prepend, *)
(* append, scope_begin, scope_end and counter) exactly as it was before    *)
(* the call.                                                               *)

C28_FailedCaptureChangesNothing ==
    \A call \in last :
        result = "QueryError" => atoms = Collected /\ Self = call.before

(* C29  The normaliser is idempotent: for every atom sequence s without    *)
(* ScopedSoftlines, applying post_process to the result of post_process(s) *)
(* returns that result unchanged.                                          *)

NoScopedSoftlines(as) == \A i \in 1..Len(as) : ~IsScopedSoftline(as[i])

C29_NormaliserIdempotent ==
    pc = "done" /\ ~panicked /\ NoScopedSoftlines(expanded) =>
        \E again \in {post_process(atoms, scope_begin, scope_end)} :
            ~again.panicked /\ again.atoms = atoms

(* C30  The normaliser only removes or moves whitespace when nothing is    *)
(* deleted: for every input sequence that contains no DeleteBegin and no   *)
(* DeleteEnd, the subsequence of non-whitespace atoms (Leaf, Literal,      *)
(* IndentStart, IndentEnd) of the output equals that of the input, same    *)
(* atoms in the same order and number.                                     *)

IsNonWhitespace(a) == a.kind \in {"Leaf", "Literal", "IndentStart", "IndentEnd"}
NonWhitespace(as) == SelectSeq(as, IsNonWhitespace)
NoDeleteMarkers(as) ==
    \A i \in 1..Len(as) : as[i].kind \notin {"DeleteBegin", "DeleteEnd"}

C30_NonWhitespacePreserved ==
    pc = "done" /\ ~panicked /\ NoDeleteMarkers(expanded) =>
        NonWhitespace(atoms) = NonWhitespace(expanded)

\* whitespace in front of an IndentStart is moved behind it and a run is
\* collapsed, the leaves and the brackets stay as they were
C30_Witness ==
    /\ pc = "done"
    /\ ~panicked
    /\ NoDeleteMarkers(expanded)
    /\ \E i \in 1..(Len(expanded) - 3) :
          /\ IsLeaf(expanded[i])
          /\ expanded[i + 1] = Space
          /\ expanded[i + 2] = Hardline
          /\ expanded[i + 3].kind = "IndentStart"
    /\ \E i \in 1..(Len(atoms) - 2) :
          /\ IsLeaf(atoms[i])
          /\ atoms[i + 1].kind = "IndentStart"
          /\ atoms[i + 2] = Hardline
    /\ \E i \in 1..Len(expanded) : expanded[i].kind = "IndentEnd"

(* C31  The panic in is_dominant is unreachable: during post_process, for  *)
(* every input atom sequence, is_dominant is only ever called with both    *)
(* arguments in {Space, Hardline, Blankline}, and for those pairs it       *)
(* returns true exactly when next is strictly above prev in the order      *)
(* Blankline > Hardline > Space.                                           *)

Rank(a) == CASE a = Space -> 0 [] a = Hardline -> 1 [] a = Blankline -> 2

C31_PanicUnreachable ==
    pc = "done" =>
        /\ ~panicked
        /\ \A call \in IsDominantCalls(<<>>, scoped) :
              /\ call[1] \in Whitespace
              /\ call[2] \in Whitespace
              /\ is_dominant(call[1], call[2]) = Some(Rank(call[1]) > Rank(call[2]))

\* one pass that asks about a Hardline behind a Space, a Blankline behind
\* that Hardline and a Blankline behind that Blankline
C31_Witness ==
    /\ pc = "done"
    /\ ~panicked
    /\ <<Blankline, Blankline>> \in IsDominantCalls(<<>>, scoped)
    /\ <<Hardline, Space>> \in IsDominantCalls(<<>>, scoped)
    /\ <<Blankline, Hardline>> \in IsDominantCalls(<<>>, scoped)
    /\ \E i \in 1..Len(scoped) : scoped[i].kind \in {"Leaf", "Literal"}

====
